---- MODULE Spec2Model ----
(***************************************************************************)
(* A model of the business-plan check system (common.py, check.py).        *)
(*                                                                         *)
(* Strings are sequences of one-character strings.  The characters are     *)
(* written in ASCII:                                                       *)
(*   "K"  a sentence terminator that is not whitespace (one of the three   *)
(*        marks of the split pattern of common.py:185 other than newline)  *)
(*   "n"  the newline: a terminator, and whitespace for str.strip()        *)
(*   "_"  a blank: whitespace, not a terminator                            *)
(*   "a"  any other character                                              *)
(***************************************************************************)
EXTENDS Integers, Sequences, FiniteSets, TLC

VARIABLES
    \* chunk_text_for_japanese, one call (common.py:178-215)
    text, max_chars, overlap, units, ui, cur, chunks, cpc,
    \* history variables of the windowing loop: where the buffer's and the
    \* chunks' characters come from
    curSeed, curBody, made,
    \* build_tfidf_index and retrieve_top_k, one call of each (common.py:221-238)
    rchunks, query, k, index, top_idx, top_texts, rpc,
    \* parse_score_safely, one call (common.py:295-325)
    obj_or_text, parsed, spc,
    \* data/history.csv: its rows; the number of append_history calls made
    history_csv, appends,
    \* check.render, one run of the button (check.py:62-188): the widgets' values,
    \* the locals not named above, and what the run did
    run_pc, mode, uploaded, company_name, llm_text, llm_calls, shown, stages, written

chunkVars == <<text, max_chars, overlap, units, ui, cur, chunks, cpc,
               curSeed, curBody, made>>

retrVars == <<rchunks, query, k, index, top_idx, top_texts, rpc>>

scoreVars == <<obj_or_text, parsed, spc>>

histVars == <<history_csv, appends>>

runVars == <<run_pc, mode, uploaded, company_name, llm_text, llm_calls, shown, stages, written>>

vars == <<chunkVars, retrVars, scoreVars, histVars, runVars>>

----------------------------------------------------------------------------
(* Bounds of the model *)

MaxTextLen == 5
MaxChars == 3
MaxOverlap == 3
MaxChunks == 3
MaxK == 3
MaxScoreLen == 5
MaxAppends == 3

----------------------------------------------------------------------------
(* The state of a component that is not the one being run *)

\* Python's None; a value that may be None is the empty sequence or the
\* one-element sequence of the value (a matched group is never empty)
None == <<>>
Some(v) == <<v>>

ChunkIdle ==
    /\ text = <<>> /\ max_chars = 0 /\ overlap = 0 /\ units = <<>> /\ ui = 0
    /\ cur = <<>> /\ chunks = <<>> /\ cpc = "idle"
    /\ curSeed = <<>> /\ curBody = <<>> /\ made = <<>>

RetrIdle ==
    /\ rchunks = <<>> /\ query = <<>> /\ k = 0 /\ index = [ok |-> FALSE, vocabulary |-> {}]
    /\ top_idx = <<>> /\ top_texts = <<>> /\ rpc = "idle"

\* the two kinds of argument of parse_score_safely: a str, and a dict with an
\* optional "score" and one more string member
StrValue(t) == [kind |-> "str", text |-> t, score |-> None, summary |-> <<>>]
DictValue(v, m) == [kind |-> "dict", text |-> <<>>, score |-> v, summary |-> m]

ScoreIdle == obj_or_text = StrValue(<<>>) /\ parsed = None /\ spc = "idle"

\* ensure_data_dirs has written the header of history.csv (common.py:47-48)
HistIdle == history_csv = <<>> /\ appends = 0

RunIdle ==
    /\ run_pc = "idle" /\ mode = "criteria" /\ uploaded = None /\ company_name = <<>>
    /\ llm_text = None /\ llm_calls = 0 /\ shown = <<>> /\ stages = <<>> /\ written = <<>>

----------------------------------------------------------------------------
(* Strings *)

TextAlphabet == {"a", "K", "n", "_"}

RECURSIVE StringsUpTo(_, _)
StringsUpTo(alphabet, n) ==
    IF n = 0 THEN {<<>>}
    ELSE LET shorter == StringsUpTo(alphabet, n - 1)
         IN  shorter \cup {Append(s, c) : s \in {t \in shorter : Len(t) = n - 1},
                                          c \in alphabet}

IsSpace(c) == c \in {"n", "_"}

\* the four strings of the list of common.py:190
IsTerminator(c) == c \in {"K", "n"}

RECURSIVE LStrip(_)
LStrip(s) == IF s # <<>> /\ IsSpace(Head(s)) THEN LStrip(Tail(s)) ELSE s

RECURSIVE RStrip(_)
RStrip(s) ==
    IF s # <<>> /\ IsSpace(s[Len(s)]) THEN RStrip(SubSeq(s, 1, Len(s) - 1)) ELSE s

\* str.strip()
Strip(s) == RStrip(LStrip(s))

\* s[-n:] for 0 < n
LastChars(s, n) == IF Len(s) <= n THEN s ELSE SubSeq(s, Len(s) - n + 1, Len(s))

\* t occurs in s as a contiguous run
Contains(s, t) ==
    \E off \in 0..Len(s) - Len(t) : SubSeq(s, off + 1, off + Len(t)) = t

Min(a, b) == IF a < b THEN a ELSE b
Max(a, b) == IF a < b THEN b ELSE a

InSeq(x, s) == \E y \in 1..Len(s) : s[y] = x

Distinct(s) == \A x, y \in 1..Len(s) : x # y => s[x] # s[y]

StrictlyIncreasing(s) == \A x \in 1..Len(s) - 1 : s[x] < s[x + 1]

RECURSIVE Concat(_)
Concat(ss) == IF ss = <<>> THEN <<>> ELSE Head(ss) \o Concat(Tail(ss))

----------------------------------------------------------------------------
(* chunk_text_for_japanese: sentence segmentation *)

\* re.split with a capturing group: the pieces between the terminators and the
\* terminators themselves, alternating, beginning and ending with a piece
RECURSIVE ReSplit(_, _, _)
ReSplit(s, piece, acc) ==
    IF s = <<>> THEN Append(acc, piece)
    ELSE IF IsTerminator(Head(s))
         THEN ReSplit(Tail(s), <<>>, acc \o <<piece, <<Head(s)>>>>)
         ELSE ReSplit(Tail(s), Append(piece, Head(s)), acc)

\* the loop of common.py:189-195 followed by the test of line 196
RECURSIVE UnitsLoop(_, _, _)
UnitsLoop(sentences, buf, acc) ==
    IF sentences = <<>>
    THEN IF Strip(buf) # <<>> THEN Append(acc, buf) ELSE acc
    ELSE LET s == Head(sentences)
         IN  IF Len(s) = 1 /\ IsTerminator(s[1])
             THEN UnitsLoop(Tail(sentences), <<>>, Append(acc, buf \o s))
             ELSE UnitsLoop(Tail(sentences), buf \o s, acc)

SplitUnits(t) == UnitsLoop(ReSplit(t, <<>>, <<>>), <<>>, <<>>)

----------------------------------------------------------------------------
(* chunk_text_for_japanese: windowing *)

\* the test of common.py:203
Fits(c, u, m) == Len(c) + Len(u) <= m

\* common.py:206-207 and 213-214: the buffer is emitted trimmed, if anything is left
Flushed(cs, c) == IF Strip(c) # <<>> THEN Append(cs, Strip(c)) ELSE cs

\* SeedOf with a buffer no longer than the overlap kept whole
SeedOf_WholeWhenShort(c, o) == IF o > 0 THEN LastChars(c, o) ELSE <<>>

\* the characters of the flushed buffer kept at the head of the next one
\* (common.py:209-212)
SeedOf(c, o) == IF o > 0 /\ Len(c) > o THEN LastChars(c, o) ELSE <<>>

\* WindowStep with the unit that caused a flush left out of the next buffer
WindowStep_LosesUnit(st, u, m, o) ==
    IF Fits(st.cur, u, m)
    THEN [cur |-> st.cur \o u, chunks |-> st.chunks]
    ELSE [cur |-> SeedOf(st.cur, o), chunks |-> Flushed(st.chunks, st.cur)]

\* WindowStep with a unit that does not fit cut to max_chars characters
WindowStep_Truncates(st, u, m, o) ==
    IF Fits(st.cur, u, m)
    THEN [cur |-> st.cur \o u, chunks |-> st.chunks]
    ELSE [cur |-> SeedOf(st.cur, o) \o SubSeq(u, 1, Min(Len(u), Max(m, 0))),
          chunks |-> Flushed(st.chunks, st.cur)]

\* one iteration of the loop of common.py:202-212 on the pair (cur, chunks)
WindowStep(st, u, m, o) ==
    IF Fits(st.cur, u, m)
    THEN [cur |-> st.cur \o u, chunks |-> st.chunks]
    ELSE [cur |-> SeedOf(st.cur, o) \o u, chunks |-> Flushed(st.chunks, st.cur)]

RECURSIVE WindowLoop(_, _, _, _)
WindowLoop(st, us, m, o) ==
    IF us = <<>> THEN Flushed(st.chunks, st.cur)
    ELSE WindowLoop(WindowStep(st, Head(us), m, o), Tail(us), m, o)

\* the whole function, as its callers see it
chunk_text_for_japanese(t, m, o) ==
    WindowLoop([cur |-> <<>>, chunks |-> <<>>], SplitUnits(t), m, o)

----------------------------------------------------------------------------
(* One call of chunk_text_for_japanese, statement by statement *)

ChunkCall ==
    /\ text \in StringsUpTo(TextAlphabet, MaxTextLen)
    /\ max_chars \in 0..MaxChars
    /\ overlap \in 0..MaxOverlap
    /\ units = <<>>
    /\ ui = 0
    /\ cur = <<>>
    /\ chunks = <<>>
    /\ cpc = "split"
    /\ curSeed = <<>>
    /\ curBody = <<>>
    /\ made = <<>>

\* common.py:185-201
Segment ==
    /\ cpc = "split"
    /\ units' = SplitUnits(text)
    /\ ui' = 1
    /\ cpc' = "window"
    /\ UNCHANGED <<text, max_chars, overlap, cur, chunks, curSeed, curBody, made>>

\* what a flush records about the chunk it emits
MadeAfterFlush ==
    IF Strip(cur) # <<>>
    THEN Append(made, [seed |-> curSeed, body |-> curBody, raw |-> cur])
    ELSE made

\* common.py:203-204
WindowAppend ==
    /\ cpc = "window"
    /\ ui <= Len(units)
    /\ Fits(cur, units[ui], max_chars)
    /\ LET st == WindowStep([cur |-> cur, chunks |-> chunks], units[ui], max_chars, overlap)
       IN  cur' = st.cur /\ chunks' = st.chunks
    /\ curBody' = Append(curBody, ui)
    /\ ui' = ui + 1
    /\ UNCHANGED <<text, max_chars, overlap, units, cpc, curSeed, made>>

\* common.py:205-212
WindowFlush ==
    /\ cpc = "window"
    /\ ui <= Len(units)
    /\ ~Fits(cur, units[ui], max_chars)
    /\ LET st == WindowStep([cur |-> cur, chunks |-> chunks], units[ui], max_chars, overlap)
       IN  cur' = st.cur /\ chunks' = st.chunks
    /\ made' = MadeAfterFlush
    /\ curSeed' = SeedOf(cur, overlap)
    /\ curBody' = <<ui>>
    /\ ui' = ui + 1
    /\ UNCHANGED <<text, max_chars, overlap, units, cpc>>

\* common.py:213-215
FinalFlush ==
    /\ cpc = "window"
    /\ ui > Len(units)
    /\ chunks' = Flushed(chunks, cur)
    /\ made' = MadeAfterFlush
    /\ cpc' = "done"
    /\ UNCHANGED <<text, max_chars, overlap, units, ui, cur, curSeed, curBody>>

----------------------------------------------------------------------------
(* build_tfidf_index: TfidfVectorizer(analyzer="word",                      *)
(* token_pattern=r"(?u)\b\w+\b", ngram_range=(1, 2))                        *)
(*                                                                         *)
(* Further characters of the retrieval texts, all of them word characters  *)
(* (\w): "neko" "inu" "tori" "ga" "wa" "su" "ki" "kira" "i" stand for the  *)
(* nine characters of the chunks of the end-to-end example.                *)

\* \w: everything here but whitespace and the punctuation mark
IsWordChar(c) == ~IsSpace(c) /\ c # "K"

\* findall of \b\w+\b: the maximal runs of word characters
RECURSIVE Tokenize(_, _, _)
Tokenize(s, tok, acc) ==
    IF s = <<>> THEN (IF tok # <<>> THEN Append(acc, tok) ELSE acc)
    ELSE IF IsWordChar(Head(s))
         THEN Tokenize(Tail(s), Append(tok, Head(s)), acc)
         ELSE Tokenize(Tail(s), <<>>, IF tok # <<>> THEN Append(acc, tok) ELSE acc)

Tokens(s) == Tokenize(s, <<>>, <<>>)

\* ngram_range=(1, 2): a term is one token or two consecutive tokens
TermsAt(toks) ==
    [x \in 1..(2 * Len(toks) - (IF toks = <<>> THEN 0 ELSE 1)) |->
        IF x <= Len(toks) THEN <<toks[x]>> ELSE <<toks[x - Len(toks)], toks[x - Len(toks) + 1]>>]

TermSet(s) == {TermsAt(Tokens(s))[x] : x \in DOMAIN TermsAt(Tokens(s))}

\* term frequency: the number of occurrences of term t in s
TermCount(s, t) ==
    LET ts == TermsAt(Tokens(s)) IN Cardinality({x \in DOMAIN ts : ts[x] = t})

Vocabulary(cs) == UNION {TermSet(cs[i]) : i \in 1..Len(cs)}

DocFreq(cs, t) == Cardinality({i \in 1..Len(cs) : t \in TermSet(cs[i])})

\* smooth idf, ln((1 + n) / (1 + df)) + 1, in tenths, for n documents (n <= 5)
IdfTenths(n, df) ==
    (<< <<10>>, <<14, 10>>, <<17, 13, 10>>, <<19, 15, 12, 10>>,
        <<21, 17, 14, 12, 10>> >>)[n][df]

\* idf_ of the fitted vectorizer: the idf of every term of the vocabulary
IdfOf(cs) == [t \in Vocabulary(cs) |-> IdfTenths(Len(cs), DocFreq(cs, t))]

RECURSIVE SumOver(_, _)
SumOver(S, f) ==
    IF S = {} THEN 0
    ELSE LET x == CHOOSE y \in S : TRUE IN f[x] + SumOver(S \ {x}, f)

\* a row before normalisation: tf * idf for the terms of s that are in the
\* vocabulary (transform ignores the others)
Row(idf, s) ==
    LET own == TermSet(s) \cap DOMAIN idf
    IN  [t \in own |-> TermCount(s, t) * idf[t]]

\* the inner product of two rows
Dot(r1, r2) ==
    LET both == DOMAIN r1 \cap DOMAIN r2
    IN  SumOver(both, [t \in both |-> r1[t] * r2[t]])

\* for every chunk, the inner product of the query's row with its row and the
\* squared norm of its row
Sims(cs, q) ==
    LET idf == IdfOf(cs)
        qrow == Row(idf, q)
    IN  [i \in 1..Len(cs) |->
            LET row == Row(idf, cs[i])
            IN  [dot |-> Dot(qrow, row), nsq |-> Dot(row, row)]]

\* cosine_similarity: a < b for two entries of Sims; the norm of the query's row
\* is common to both sides, and a row without terms has similarity 0
SimLess(a, b) ==
    \/ a.dot = 0 /\ b.dot > 0
    \/ a.dot > 0 /\ b.dot > 0 /\ a.dot * a.dot * b.nsq < b.dot * b.dot * a.nsq

\* fit_transform raises ValueError on an empty vocabulary
build_tfidf_index(cs) ==
    IF Vocabulary(cs) = {} THEN [ok |-> FALSE, vocabulary |-> {}]
    ELSE [ok |-> TRUE, vocabulary |-> Vocabulary(cs)]

----------------------------------------------------------------------------
(* retrieve_top_k *)

\* s[:n] of Python: a negative n counts from the end
SliceTo(s, n) ==
    IF n >= 0 THEN SubSeq(s, 1, Min(n, Len(s))) ELSE SubSeq(s, 1, Max(Len(s) + n, 0))

\* list(range(n)): 0 .. n-1, empty for n <= 0
Range(n) == [x \in 1..Max(n, 0) |-> x - 1]

Permutations0(n) ==
    {p \in [1..n -> 0..(n - 1)] : \A x, y \in 1..n : x # y => p[x] # p[y]}

\* sims.argsort()[::-1]: the indices by descending similarity; argsort leaves the
\* order of equal similarities to the sorting routine of the build
DescendingOrders(cs, q) ==
    LET sims == Sims(cs, q)
    IN  {p \in Permutations0(Len(cs)) :
            \A x \in 1..Len(cs) - 1 : ~SimLess(sims[p[x] + 1], sims[p[x + 1] + 1])}

\* common.py:233-234
EmptyQueryResult(cs, kk) == [idx |-> Range(Min(kk, Len(cs))), texts |-> SliceTo(cs, kk)]

\* common.py:235-238 for one outcome `order` of the sort
RankedResult(cs, kk, order) ==
    LET idx == SliceTo(order, kk)
    IN  [idx |-> idx, texts |-> [x \in 1..Len(idx) |-> cs[idx[x] + 1]]]

\* the results retrieve_top_k may return
retrieve_top_k(q, cs, kk) ==
    IF Strip(q) = <<>> THEN {EmptyQueryResult(cs, kk)}
    ELSE {RankedResult(cs, kk, order) : order \in DescendingOrders(cs, q)}

Neko == <<"neko", "ga", "su", "ki">>
Inu == <<"inu", "ga", "su", "ki">>
Tori == <<"tori", "wa", "kira", "i">>

ExampleChunks == <<Neko, Inu, Tori>>

ChunkPool ==
    {Neko, Inu, Tori, <<"neko", "_", "su", "ki">>, <<"inu", "_", "su", "ki">>,
     <<"tori">>, <<"K">>}

QueryPool ==
    {<<>>, <<"_">>, <<"neko">>, <<"su", "ki">>, <<"inu", "_", "su", "ki">>}

ChunkLists == UNION {[1..n -> ChunkPool] : n \in 0..MaxChunks}

RetrCall ==
    /\ rchunks \in ChunkLists
    /\ query \in QueryPool
    /\ k \in -1..MaxK
    /\ index = [ok |-> FALSE, vocabulary |-> {}]
    /\ top_idx = <<>>
    /\ top_texts = <<>>
    /\ rpc = "build"

\* common.py:221-229
BuildIndex ==
    /\ rpc = "build"
    /\ index' = build_tfidf_index(rchunks)
    /\ rpc' = IF index'.ok THEN "indexed" ELSE "index_error"
    /\ UNCHANGED <<rchunks, query, k, top_idx, top_texts>>

\* common.py:232-238
Retrieve ==
    /\ rpc = "indexed"
    /\ \E r \in retrieve_top_k(query, rchunks, k) :
          top_idx' = r.idx /\ top_texts' = r.texts
    /\ rpc' = "done"
    /\ UNCHANGED <<rchunks, query, k, index>>

----------------------------------------------------------------------------
(* parse_score_safely                                                      *)
(*                                                                         *)
(* Further characters: the digits; "T" for the character of the second     *)
(* pattern (common.py:320); "Q" for the seven characters "score" with      *)
(* their quotes, which the first pattern (common.py:314) matches as one     *)
(* literal; ":" "-" "{" "}" "(" ")" and "a" match no class of a pattern     *)
(* but themselves.                                                         *)

Digits == <<"0", "1", "2", "3", "4", "5", "6", "7", "8", "9">>

IsDigit(c) == \E d \in 1..10 : Digits[d] = c

DigitValue(c) == (CHOOSE d \in 1..10 : Digits[d] = c) - 1

\* int() of a string of digits
RECURSIVE IntOf(_)
IntOf(ds) ==
    IF ds = <<>> THEN 0 ELSE 10 * IntOf(SubSeq(ds, 1, Len(ds) - 1)) + DigitValue(ds[Len(ds)])

\* str() of an integer
RECURSIVE IntText(_)
IntText(n) ==
    IF n < 0 THEN <<"-">> \o IntText(-n)
    ELSE IF n < 10 THEN <<Digits[n + 1]>>
    ELSE IntText(n \div 10) \o <<Digits[(n % 10) + 1]>>

\* json.dumps of a dict
Dumps(d) ==
    <<"{">> \o (IF d.score = None THEN <<>> ELSE <<"Q", ":", "_">> \o IntText(d.score[1]) \o <<"a">>)
            \o d.summary \o <<"}">>

\* \s* from position i: the first position at or after i that holds no whitespace
RECURSIVE SkipSpaces(_, _)
SkipSpaces(s, i) == IF i <= Len(s) /\ IsSpace(s[i]) THEN SkipSpaces(s, i + 1) ELSE i

\* \d{1,3} at position i, greedy: the number of digits taken, 0 when there is none
DigitsAt(s, i) ==
    IF i > Len(s) \/ ~IsDigit(s[i]) THEN 0
    ELSE IF i + 1 > Len(s) \/ ~IsDigit(s[i + 1]) THEN 1
    ELSE IF i + 2 > Len(s) \/ ~IsDigit(s[i + 2]) THEN 2
    ELSE 3

\* the first pattern matched at position i: its group, or None
ScoreFieldAt(s, i) ==
    IF s[i] # "Q" THEN None
    ELSE LET c == SkipSpaces(s, i + 1)
         IN  IF c > Len(s) \/ s[c] # ":" THEN None
             ELSE LET d == SkipSpaces(s, c + 1)
                  IN  IF DigitsAt(s, d) = 0 THEN None
                      ELSE SubSeq(s, d, d + DigitsAt(s, d) - 1)

\* the second pattern matched at position i: the longest group of 1 to 3 digits
\* that whitespace and then "T" follow, or None
PointsAt(s, i) ==
    LET fits == {l \in 1..DigitsAt(s, i) :
                    LET t == SkipSpaces(s, i + l) IN t <= Len(s) /\ s[t] = "T"}
    IN  IF fits = {} THEN None
        ELSE SubSeq(s, i, i + (CHOOSE l \in fits : \A m \in fits : m <= l) - 1)

\* re.search: the group of the leftmost match of a pattern, or None
RECURSIVE Search(_, _, _)
Search(At(_, _), s, i) ==
    IF i > Len(s) THEN None
    ELSE IF At(s, i) # None THEN At(s, i)
    ELSE Search(At, s, i + 1)

InRange(iv) == 0 <= iv /\ iv <= 100

\* common.py:312-325
ParseText(t) ==
    LET m == Search(ScoreFieldAt, t, 1)
        m2 == Search(PointsAt, t, 1)
    IN  IF m # None /\ InRange(IntOf(m)) THEN Some(IntOf(m))
        ELSE IF m2 # None /\ InRange(IntOf(m2)) THEN Some(IntOf(m2))
        ELSE None

IsDict(o) == o.kind = "dict"

\* common.py:295-325
parse_score_safely(o) ==
    IF IsDict(o) /\ o.score # None /\ InRange(o.score[1]) THEN o.score
    ELSE ParseText(IF IsDict(o) THEN Dumps(o) ELSE o.text)

ScoreAlphabet == {"0", "1", "5", "T", "_", "Q", ":", "a"}

ScoreValues == {None} \cup {Some(v) : v \in {-5, 0, 85, 100, 150, 1000}}

Summaries == {<<>>, <<"a">>, <<"8", "0", "T">>}

ScoreInputs ==
    {StrValue(t) : t \in StringsUpTo(ScoreAlphabet, MaxScoreLen)}
    \cup {DictValue(v, m) : v \in ScoreValues, m \in Summaries}

ScoreCall == obj_or_text \in ScoreInputs /\ parsed = None /\ spc = "call"

ParseScore ==
    /\ spc = "call"
    /\ parsed' = parse_score_safely(obj_or_text)
    /\ spc' = "done"
    /\ UNCHANGED obj_or_text

----------------------------------------------------------------------------
(* append_history                                                          *)
(*                                                                         *)
(* A row of history.csv is a record of the texts of its five cells; the    *)
(* score cell is "" , the digits of an integer, or those digits followed   *)
(* by ".0".  The other cells are ordinary strings, which read_csv and      *)
(* to_csv give back as they are.                                           *)

IsFloatText(c) == \E x \in 1..Len(c) : c[x] = "."

\* the digits before the decimal point
IntPart(c) == IF IsFloatText(c) THEN SubSeq(c, 1, Len(c) - 2) ELSE c

\* str() of a float with an integral value
FloatText(c) == IntPart(c) \o <<".", "0">>

\* read_csv: a score column with a blank (NaN) or a decimal point is float64
IsFloatColumn(rows) ==
    \E i \in 1..Len(rows) : rows[i].score = <<>> \/ IsFloatText(rows[i].score)

\* to_csv of the frame read: the cells of a float64 column are written as floats
Rewritten(rows) ==
    [i \in 1..Len(rows) |->
        IF IsFloatColumn(rows) /\ rows[i].score # <<>>
        THEN [rows[i] EXCEPT !.score = FloatText(rows[i].score)]
        ELSE rows[i]]

\* the new row as to_csv writes it: concat of a float64 column with an integer
\* keeps float64; with the string "" the column becomes object
NewRow(rows, row) ==
    IF IsFloatColumn(rows) /\ row.score # <<>>
    THEN [row EXCEPT !.score = FloatText(row.score)]
    ELSE row

\* common.py:114-129; readable: whether read_csv succeeds (line 125)
append_history(file, row, readable) ==
    LET df == IF readable THEN file ELSE <<>>
    IN  Append(Rewritten(df), NewRow(df, row))

\* HistoryScore with 0 standing in for a missing score
HistoryScore_DefaultsToZero(score) == IF score # None THEN IntText(score[1]) ELSE <<"0">>

\* the score argument of append_history (check.py:173)
HistoryScore(score) == IF score # None THEN IntText(score[1]) ELSE <<>>

\* check.py:174
ModeLabel(m) == IF m = "criteria" THEN "shinsa" ELSE "goji"

HistoryRow(ts, company, score, m, filename) ==
    [timestamp |-> ts, company_name |-> company, score |-> score, mode |-> m,
     filename |-> filename]

Companies == {<<"a">>, <<"a", "a">>}

Rows ==
    {HistoryRow(appends + 1, c, HistoryScore(v), ModeLabel(m), "plan.pdf") :
        c \in Companies, v \in {None, Some(85), Some(100)}, m \in {"criteria", "typo"}}

\* one call of append_history
AppendHistory ==
    /\ appends < MaxAppends
    /\ \E row \in Rows, readable \in BOOLEAN :
          history_csv' = append_history(history_csv, row, readable)
    /\ appends' = appends + 1

----------------------------------------------------------------------------
(* check.render: one run of the check *)

\* the sliders of _render_settings_box (check.py:30-32): the ends and the default
\* of each, and for the overlap the first value that reaches the least chunk size
TopKValues == {3, 6, 12}
ChunkCharValues == {500, 1200, 2000}
OverlapValues == {0, 200, 500, 600}

\* the uploader: no file, a file extract_text_from_pdf raises on, or a file with
\* an extracted text
NoFile == None
Unreadable == Some([raises |-> TRUE, text |-> <<>>])
Pdf(t) == Some([raises |-> FALSE, text |-> t])

DocTexts ==
    {<<>>, <<"_", "n">>, <<"K">>, <<"a", "K", "a">>, Neko \o <<"K", "n">> \o Tori}

Uploads == {NoFile, Unreadable} \cup {Pdf(t) : t \in DocTexts}

\* the first 300 characters of the task prompt of the prompt store (check.py:140)
TaskQueries == {<<>>, <<"neko">>, <<"a">>}

\* what call_openai_with_context returns (common.py:244-289): None, or the text of
\* the reply together with what json.loads makes of it (None: not JSON)
Reply(t, j) == Some([text |-> t, json |-> j])
JsonReply(v, m) == Reply(Dumps(DictValue(v, m)), Some(DictValue(v, m)))

Replies ==
    {None, Reply(<<>>, None), Reply(<<"a">>, None), Reply(<<"8", "5", "T">>, None),
     JsonReply(Some(85), <<>>), JsonReply(Some(150), <<>>), JsonReply(None, <<"a">>)}

\* "(出力なし)" (check.py:160)
NoOutput == <<"(", "a", "a", "a", "a", ")">>

\* check.py:153-158
ParsedJson(reply) ==
    IF reply # None /\ reply[1].text # <<>> THEN reply[1].json ELSE None

\* the content argument of _render_result_box (check.py:160)
Content(reply) ==
    IF reply # None /\ reply[1].text # <<>> THEN reply[1].text ELSE NoOutput

\* the argument of parse_score_safely (check.py:57): parsed_json or content
ScoreArgument(reply) ==
    IF ParsedJson(reply) # None THEN ParsedJson(reply)[1] ELSE StrValue(Content(reply))

\* the value of the metric (check.py:58)
Metric(score) == IF score = None THEN <<"-">> ELSE IntText(score[1]) \o <<"_", "T">>

\* check.py:109-110; guess_company_name_from_text finds none of its patterns in
\* the texts of the model
CompanyName(input) == IF Strip(input) = <<>> THEN <<"u", "n", "k">> ELSE input

RunStart ==
    /\ run_pc = "ready"
    /\ mode \in {"criteria", "typo"}
    /\ uploaded \in Uploads
    /\ company_name \in {<<>>, <<"a">>}
    /\ k \in TopKValues
    /\ max_chars \in ChunkCharValues
    /\ overlap \in OverlapValues
    /\ history_csv \in {<<>>, <<HistoryRow(0, <<"a">>, <<"8", "5">>, "shinsa", "old.pdf")>>}
    /\ appends = 0
    /\ llm_text = None /\ llm_calls = 0 /\ shown = <<>> /\ stages = <<>> /\ written = <<>>
    /\ text = <<>> /\ units = <<>> /\ ui = 0 /\ cur = <<>> /\ chunks = <<>> /\ cpc = "idle"
    /\ curSeed = <<>> /\ curBody = <<>> /\ made = <<>>
    /\ rchunks = <<>> /\ query = <<>> /\ index = [ok |-> FALSE, vocabulary |-> {}]
    /\ top_idx = <<>> /\ top_texts = <<>> /\ rpc = "idle"
    /\ ScoreIdle

\* check.py:91-93
NoUpload ==
    /\ run_pc = "ready"
    /\ uploaded = NoFile
    /\ run_pc' = "stopped"
    /\ shown' = <<"n", "o", "_", "p", "d", "f">>
    /\ UNCHANGED <<mode, uploaded, company_name, llm_text, llm_calls, stages, written>>
    /\ UNCHANGED <<chunkVars, retrVars, scoreVars, histVars>>

\* a variant of ExtractStage that stops only when the extraction raises and lets
\* an empty text through to the segmentation
ExtractStage_IgnoresEmptyText ==
    /\ run_pc = "ready"
    /\ uploaded # NoFile
    /\ stages' = Append(stages, "extract")
    /\ IF uploaded[1].raises
       THEN /\ run_pc' = "stopped"
            /\ shown' = <<"p", "d", "f", "_", "e", "r", "r">>
            /\ UNCHANGED <<text, company_name>>
       ELSE /\ text' = uploaded[1].text
            /\ run_pc' = "segment"
            /\ company_name' = CompanyName(company_name)
            /\ UNCHANGED shown
    /\ UNCHANGED <<mode, uploaded, llm_text, llm_calls, written>>
    /\ UNCHANGED <<max_chars, overlap, units, ui, cur, chunks, cpc, curSeed, curBody, made>>
    /\ UNCHANGED <<retrVars, scoreVars, histVars>>

\* check.py:95-111
ExtractStage ==
    /\ run_pc = "ready"
    /\ uploaded # NoFile
    /\ stages' = Append(stages, "extract")
    /\ IF uploaded[1].raises
       THEN /\ run_pc' = "stopped"
            /\ shown' = <<"p", "d", "f", "_", "e", "r", "r">>
            /\ UNCHANGED <<text, company_name>>
       ELSE /\ text' = uploaded[1].text
            /\ IF Strip(text') = <<>>
               THEN /\ run_pc' = "stopped"
                    /\ shown' = <<"n", "o", "_", "t", "e", "x", "t">>
                    /\ UNCHANGED company_name
               ELSE /\ run_pc' = "segment"
                    /\ company_name' = CompanyName(company_name)
                    /\ UNCHANGED shown
    /\ UNCHANGED <<mode, uploaded, llm_text, llm_calls, written>>
    /\ UNCHANGED <<max_chars, overlap, units, ui, cur, chunks, cpc, curSeed, curBody, made>>
    /\ UNCHANGED <<retrVars, scoreVars, histVars>>

\* check.py:115
SegmentStage ==
    /\ run_pc = "segment"
    /\ stages' = Append(stages, "segment")
    /\ chunks' = chunk_text_for_japanese(text, max_chars, overlap)
    /\ run_pc' = "index"
    /\ UNCHANGED <<mode, uploaded, company_name, llm_text, llm_calls, shown, written>>
    /\ UNCHANGED <<text, max_chars, overlap, units, ui, cur, cpc, curSeed, curBody, made>>
    /\ UNCHANGED <<retrVars, scoreVars, histVars>>

\* check.py:116; the ValueError of an empty vocabulary is not caught
IndexStage ==
    /\ run_pc = "index"
    /\ stages' = Append(stages, "index")
    /\ rchunks' = chunks
    /\ index' = build_tfidf_index(chunks)
    /\ run_pc' = IF index'.ok THEN "retrieve" ELSE "raised"
    /\ UNCHANGED <<mode, uploaded, company_name, llm_text, llm_calls, shown, written>>
    /\ UNCHANGED <<query, k, top_idx, top_texts, rpc>>
    /\ UNCHANGED <<chunkVars, scoreVars, histVars>>

\* check.py:119-141
RetrieveStage ==
    /\ run_pc = "retrieve"
    /\ stages' = Append(stages, "retrieve")
    /\ query' \in TaskQueries
    /\ \E r \in retrieve_top_k(query', rchunks, k) :
          top_idx' = r.idx /\ top_texts' = r.texts
    /\ run_pc' = "llm"
    /\ UNCHANGED <<mode, uploaded, company_name, llm_text, llm_calls, shown, written>>
    /\ UNCHANGED <<rchunks, k, index, rpc>>
    /\ UNCHANGED <<chunkVars, scoreVars, histVars>>

\* check.py:144-150
CallLLM ==
    /\ run_pc = "llm"
    /\ stages' = Append(stages, "llm")
    /\ llm_text' \in Replies
    /\ llm_calls' = llm_calls + 1
    /\ run_pc' = "show"
    /\ UNCHANGED <<mode, uploaded, company_name, shown, written>>
    /\ UNCHANGED <<chunkVars, retrVars, scoreVars, histVars>>

\* check.py:152-166 with _render_result_box (check.py:42-59)
ShowResult ==
    /\ run_pc = "show"
    /\ obj_or_text' = ScoreArgument(llm_text)
    /\ parsed' = parse_score_safely(obj_or_text')
    /\ shown' = Metric(parsed')
    /\ run_pc' = "append"
    /\ UNCHANGED <<mode, uploaded, company_name, llm_text, llm_calls, stages, written>>
    /\ UNCHANGED <<spc>>
    /\ UNCHANGED <<chunkVars, retrVars, histVars>>

\* check.py:168-176
AppendStage ==
    /\ run_pc = "append"
    /\ stages' = Append(stages, "append")
    /\ LET row == HistoryRow(appends + 1, company_name, HistoryScore(parsed),
                             ModeLabel(mode), "plan.pdf")
       IN  /\ written' = Append(written, row)
           /\ \E readable \in BOOLEAN :
                 history_csv' = append_history(history_csv, row, readable)
    /\ appends' = appends + 1
    /\ run_pc' = "done"
    /\ UNCHANGED <<mode, uploaded, company_name, llm_text, llm_calls, shown>>
    /\ UNCHANGED <<chunkVars, retrVars, scoreVars>>


----------------------------------------------------------------------------
(* Specifications: one per component, the others at rest *)

ChunkInit == ChunkCall /\ RetrIdle /\ ScoreIdle /\ HistIdle /\ RunIdle

ChunkNext ==
    /\ Segment \/ WindowAppend \/ WindowFlush \/ FinalFlush
    /\ UNCHANGED <<retrVars, scoreVars, histVars, runVars>>

SpecChunk == ChunkInit /\ [][ChunkNext]_vars

RetrInit == RetrCall /\ ChunkIdle /\ ScoreIdle /\ HistIdle /\ RunIdle

RetrNext ==
    /\ BuildIndex \/ Retrieve
    /\ UNCHANGED <<chunkVars, scoreVars, histVars, runVars>>

SpecRetrieve == RetrInit /\ [][RetrNext]_vars

ScoreInit == ScoreCall /\ ChunkIdle /\ RetrIdle /\ HistIdle /\ RunIdle

ScoreNext == ParseScore /\ UNCHANGED <<chunkVars, retrVars, histVars, runVars>>

SpecScore == ScoreInit /\ [][ScoreNext]_vars

HistInit == HistIdle /\ ChunkIdle /\ RetrIdle /\ ScoreIdle /\ RunIdle

HistNext == AppendHistory /\ UNCHANGED <<chunkVars, retrVars, scoreVars, runVars>>

SpecHistory == HistInit /\ [][HistNext]_vars

RunInit == RunStart

RunNext ==
    \/ NoUpload
    \/ ExtractStage
    \/ SegmentStage
    \/ IndexStage
    \/ RetrieveStage
    \/ CallLLM
    \/ ShowResult
    \/ AppendStage

SpecRun == RunInit /\ [][RunNext]_vars

----------------------------------------------------------------------------
(* Properties of the chunker *)

ValidParams == max_chars > 0 /\ 0 <= overlap /\ overlap < max_chars

ChunkDone == cpc = "done"

\* the text of the units a buffer was built from, its seed aside
BodyText(body) == Concat([x \in 1..Len(body) |-> units[body[x]]])

\* the units of all emitted chunks, in the order of the chunks
AllBodies == Concat([i \in 1..Len(made) |-> made[i].body])

\* chunk i without the characters of its overlap seed
WithoutSeed(i) == SubSeq(chunks[i], Len(made[i].seed) + 1, Len(chunks[i]))

\* C1 as stated: for a non-empty text and valid parameters every chunk has a
\* trimmed length > 0, and the chunks, their overlap seeds left out, concatenate
\* back to the sequence of units: no unit lost, duplicated or reordered.
C1_Original ==
    (ChunkDone /\ text # <<>> /\ ValidParams) =>
        /\ \A i \in 1..Len(chunks) : Len(Strip(chunks[i])) > 0
        /\ Concat([i \in 1..Len(chunks) |-> WithoutSeed(i)]) = Concat(units)

\* C1 as amended: for a non-empty text and valid parameters every chunk is its own
\* trim and not empty; chunk i is the trim of its overlap seed followed by a run of
\* consecutive units; the runs follow each other in document order without
\* repeating a unit; and a unit that is in no chunk consists of whitespace only.
C1_Reconstruct ==
    (ChunkDone /\ text # <<>> /\ ValidParams) =>
        /\ Len(made) = Len(chunks)
        /\ \A i \in 1..Len(chunks) :
              /\ chunks[i] # <<>>
              /\ Strip(chunks[i]) = chunks[i]
              /\ chunks[i] = Strip(made[i].seed \o BodyText(made[i].body))
              /\ \A x \in 1..Len(made[i].body) - 1 :
                    made[i].body[x + 1] = made[i].body[x] + 1
        /\ StrictlyIncreasing(AllBodies)
        /\ \A j \in 1..Len(units) : InSeq(j, AllBodies) \/ Strip(units[j]) = <<>>

\* a text whose chunks drop whitespace units and trim others, and one with a seed
C1_Witness ==
    /\ ChunkDone /\ text # <<>> /\ ValidParams
    /\ Len(chunks) >= 2
    /\ \E i \in 1..Len(made) : made[i].seed # <<>>
    /\ \E j \in 1..Len(units) : ~InSeq(j, AllBodies)

Oversized(j) == Len(units[j]) > max_chars

ChunksHolding(j) == {i \in 1..Len(made) : InSeq(j, made[i].body)}

\* C4 as stated: a unit longer than max_chars is in exactly one chunk, alone with
\* the overlap seed, whole and contiguous; the next chunk repeats at most
\* `overlap` characters of it.
C4_Original ==
    (ChunkDone /\ ValidParams) =>
        \A j \in 1..Len(units) : Oversized(j) =>
            /\ Cardinality(ChunksHolding(j)) = 1
            /\ \A i \in ChunksHolding(j) :
                  /\ made[i].body = <<j>>
                  /\ Contains(chunks[i], units[j])
                  /\ i < Len(made) => Len(made[i + 1].seed) <= overlap

\* C4 as amended: a unit longer than max_chars that is not whitespace only is in
\* exactly one chunk, alone with the overlap seed; the chunk is the trim of seed
\* and unit, so the unit is contiguous in it and loses at most whitespace at its
\* ends; the next chunk repeats at most `overlap` characters.
C4_OversizedIntact ==
    (ChunkDone /\ ValidParams) =>
        \A j \in 1..Len(units) : (Oversized(j) /\ Strip(units[j]) # <<>>) =>
            /\ Cardinality(ChunksHolding(j)) = 1
            /\ \A i \in ChunksHolding(j) :
                  /\ made[i].body = <<j>>
                  /\ chunks[i] = Strip(made[i].seed \o units[j])
                  /\ Contains(chunks[i], Strip(units[j]))
                  /\ Len(chunks[i]) >= Len(Strip(units[j]))
                  /\ i < Len(made) =>
                        /\ Len(made[i + 1].seed) <= overlap
                        /\ Len(made[i + 1].seed) < Len(units[j])

\* an oversized unit with text in it, alone in its chunk, whose tail is the
\* overlap seed of the chunk that follows
C4_Witness ==
    /\ ChunkDone /\ ValidParams
    /\ \E j \in 1..Len(units) :
          /\ Oversized(j) /\ Strip(units[j]) # <<>>
          /\ \E i \in ChunksHolding(j) :
                /\ i < Len(made)
                /\ made[i + 1].seed # <<>>
                /\ made[i + 1].seed = LastChars(units[j], overlap)

FlushCase == cpc = "window" /\ ui <= Len(units) /\ ~Fits(cur, units[ui], max_chars)

\* the seed the specification describes: the trailing `overlap` characters, or
\* the whole flushed buffer when it is shorter
DescribedSeed == IF overlap > 0 THEN LastChars(cur, overlap) ELSE <<>>

\* C10 as stated: on a flush the next buffer is the last `overlap` characters of
\* the flushed buffer, or all of it when it is shorter, followed by the unit.
C10_Original ==
    [][(FlushCase /\ ValidParams) => cur' = DescribedSeed \o units[ui]]_vars

\* C10 as amended: on a flush the buffer is emitted trimmed (nothing is emitted
\* when it trims to nothing) and the next buffer is the unit preceded by the last
\* `overlap` characters of the flushed buffer when that buffer is longer than
\* `overlap`, and by nothing otherwise; with overlap = 0 the next buffer is the
\* unit alone.
C10_FlushSeed ==
    [][(FlushCase /\ ValidParams) =>
          /\ chunks' = (IF Strip(cur) # <<>> THEN Append(chunks, Strip(cur)) ELSE chunks)
          /\ cur' = (IF Len(cur) > overlap /\ overlap > 0
                     THEN SubSeq(cur, Len(cur) - overlap + 1, Len(cur))
                     ELSE <<>>) \o units[ui]
          /\ overlap = 0 => cur' = units[ui]
          /\ ui' = ui + 1]_vars

\* a flush of a buffer longer than the overlap and one of a buffer that is not
C10_Witness ==
    /\ ChunkDone /\ ValidParams /\ overlap > 0
    /\ \E i \in 1..Len(made) - 1 :
          Len(made[i].raw) > overlap /\ made[i + 1].seed = LastChars(made[i].raw, overlap)
    /\ \E i \in 1..Len(made) - 1 :
          Len(made[i].raw) <= overlap /\ made[i + 1].seed = <<>>

----------------------------------------------------------------------------
(* Properties of the retriever *)

RetrDone == rpc = "done"

\* C2: retrieve_top_k returns at most min(k, len(chunks)) results, the indices are
\* distinct members of range(len(chunks)), and k <= 0 gives an empty result: no
\* indices and no chunk texts.
C2_Claim ==
    RetrDone =>
        /\ Len(top_idx) <= Max(Min(k, Len(rchunks)), 0)
        /\ Len(top_texts) <= Max(Min(k, Len(rchunks)), 0)
        /\ Distinct(top_idx)
        /\ \A x \in 1..Len(top_idx) : top_idx[x] \in 0..(Len(rchunks) - 1)
        /\ k <= 0 => (top_idx = <<>> /\ top_texts = <<>>)

\* C5: with a non-empty query the results are in descending cosine similarity, a
\* chunk without a term of the query is not first while another chunk has one,
\* and for the chunks of the end-to-end example, the query "neko" and k = 2 the
\* first text contains "neko" and is not the third chunk.
C5_Claim ==
    (RetrDone /\ Strip(query) # <<>>) =>
        LET sims == Sims(rchunks, query)
        IN  /\ \A x \in 1..Len(top_idx) - 1 :
                  ~SimLess(sims[top_idx[x] + 1], sims[top_idx[x + 1] + 1])
            /\ (top_idx # <<>> /\ \E i \in 1..Len(rchunks) : sims[i].dot > 0)
                  => sims[top_idx[1] + 1].dot > 0
            /\ (rchunks = ExampleChunks /\ query = <<"neko">> /\ k = 2) =>
                  /\ Len(top_texts) = 2
                  /\ Contains(top_texts[1], <<"neko">>)
                  /\ top_texts[1] # Tori

\* C6: for a query that is empty after trimming the result is, for every k, the
\* first min(k, len(chunks)) chunks in order, each with its own index: as many
\* texts as indices, and the j-th text is the chunk at the j-th index.
C6_Claim ==
    (RetrDone /\ Strip(query) = <<>>) =>
        /\ top_idx = Range(Min(k, Len(rchunks)))
        /\ Len(top_texts) = Len(top_idx)
        /\ \A j \in 1..Min(Len(top_idx), Len(top_texts)) :
              top_texts[j] = rchunks[top_idx[j] + 1]

----------------------------------------------------------------------------
(* Properties of the score parser *)

\* the maximal runs of digits of s, as pairs of first and last position
DigitRuns(s) ==
    {<<i, j>> \in (1..Len(s)) \X (1..Len(s)) :
        /\ i <= j
        /\ \A x \in i..j : IsDigit(s[x])
        /\ i = 1 \/ ~IsDigit(s[i - 1])
        /\ j = Len(s) \/ ~IsDigit(s[j + 1])}

\* the run follows "score", whitespace, a colon and whitespace
AfterScoreField(s, run) ==
    \E q \in 1..Len(s) :
        /\ s[q] = "Q"
        /\ LET c == SkipSpaces(s, q + 1)
           IN  c <= Len(s) /\ s[c] = ":" /\ SkipSpaces(s, c + 1) = run[1]

\* whitespace and "T" follow the run
BeforePoints(s, run) ==
    LET t == SkipSpaces(s, run[2] + 1) IN t <= Len(s) /\ s[t] = "T"

\* the whole numbers a text gives as a score
NumbersInText(s) ==
    {IntOf(SubSeq(s, run[1], run[2])) :
        run \in {r \in DigitRuns(s) : AfterScoreField(s, r) \/ BeforePoints(s, r)}}

\* the whole numbers an argument gives: its "score" member and those of its text
NumbersGiven(o) ==
    IF IsDict(o)
    THEN (IF o.score = None THEN {} ELSE {o.score[1]}) \cup NumbersInText(Dumps(o))
    ELSE NumbersInText(o.text)

\* C9: parse_score_safely returns no value or an integer in [0,100] that is the
\* whole number given in the score member or in a matched pattern, and no value
\* when no number in [0,100] is given.
C9_Claim ==
    spc = "done" =>
        /\ parsed = None \/ (InRange(parsed[1]) /\ parsed[1] \in NumbersGiven(obj_or_text))
        /\ (\A g \in NumbersGiven(obj_or_text) : ~InRange(g)) => parsed = None

----------------------------------------------------------------------------
(* Properties of the history store *)

\* C7: a call of append_history leaves every row that was in the store in its
\* place and unchanged and adds exactly one row at the end, also when the file
\* cannot be read.
C7_Claim ==
    [][appends' = appends + 1 =>
          /\ Len(history_csv') = Len(history_csv) + 1
          /\ SubSeq(history_csv', 1, Len(history_csv)) = history_csv]_vars

----------------------------------------------------------------------------
(* Properties of a run *)

\* C3: chunking parameters with overlap >= max_chars or max_chars <= 0 are
\* rejected before segmentation: no run started from the settings of the sliders
\* segments a text or produces chunks with such parameters.
C3_Claim ==
    (chunks # <<>> \/ InSeq("segment", stages)) => (max_chars > 0 /\ overlap < max_chars)

LlmFailed == run_pc \in {"show", "append", "done"} /\ llm_text = None

\* C8: when the model call of a run returns None the call is not made again, no
\* score is shown, and a history row written for the run carries no score.
C8_NoFabricatedScore ==
    LlmFailed =>
        /\ llm_calls = 1
        /\ Len(written) <= 1
        /\ run_pc \in {"append", "done"} => (parsed = None /\ shown = <<"-">>)
        /\ run_pc # "done" => written = <<>>
        /\ run_pc = "done" =>
              /\ Len(written) = 1
              /\ written[1].score = <<>>
              /\ history_csv[Len(history_csv)] = written[1]

\* a finished run whose model call failed and whose row is in the store
C8_Witness ==
    /\ LlmFailed /\ run_pc = "done"
    /\ written # <<>>
    /\ Len(history_csv) = 2

\* the stages of a run in the order of check.render (check.py:95-176)
StageOrder == <<"extract", "segment", "index", "retrieve", "llm", "append">>

\* the messages of st.error for a failed extraction (check.py:101, 105)
ExtractionErrors ==
    {<<"p", "d", "f", "_", "e", "r", "r">>, <<"n", "o", "_", "t", "e", "x", "t">>}

\* the extraction of the run has been made and it raised or gave no text
ExtractionFailed ==
    /\ InSeq("extract", stages)
    /\ uploaded # NoFile
    /\ (uploaded[1].raises \/ Strip(uploaded[1].text) = <<>>)

\* C11: the stages a run has executed are always a beginning of extract, segment,
\* index, retrieve, model call, history append, in that order and each once; the
\* effects of a stage are there only after the stage (chunks after segment, an
\* index after index, retrieved texts after retrieve, a model call after llm, a
\* history row after append); a finished run has executed all six; and a run
\* whose extraction raised or gave an empty or whitespace-only text has stopped
\* with an error message after the extraction alone: no chunks, no index, no
\* retrieval, no model call and no history row.
C11_StageOrder ==
    /\ Len(stages) <= Len(StageOrder)
    /\ stages = SubSeq(StageOrder, 1, Len(stages))
    /\ chunks # <<>> => InSeq("segment", stages)
    /\ (index.ok \/ rchunks # <<>>) => InSeq("index", stages)
    /\ (top_idx # <<>> \/ top_texts # <<>>) => InSeq("retrieve", stages)
    /\ llm_calls = (IF InSeq("llm", stages) THEN 1 ELSE 0)
    /\ llm_text # None => InSeq("llm", stages)
    /\ appends = (IF InSeq("append", stages) THEN 1 ELSE 0)
    /\ Len(written) = appends
    /\ run_pc = "done" <=> stages = StageOrder
    /\ ExtractionFailed =>
          /\ run_pc = "stopped"
          /\ shown \in ExtractionErrors
          /\ stages = <<"extract">>
          /\ chunks = <<>> /\ rchunks = <<>> /\ ~index.ok
          /\ top_idx = <<>> /\ top_texts = <<>>
          /\ llm_calls = 0 /\ llm_text = None
          /\ written = <<>> /\ appends = 0

\* a run stopped by the extraction of a whitespace-only text
C11_Witness ==
    /\ ExtractionFailed
    /\ ~uploaded[1].raises
    /\ uploaded[1].text # <<>>
    /\ run_pc = "stopped"

====
